---- MODULE Spec2Model ----
(***************************************************************************)
(* The morphing tree of src/components/TreeScene.tsx (MorphingTree) and    *)
(* the controls of src/components/Overlay.tsx that drive it; the wish card *)
(* of Overlay.tsx with generateLuxuryWish of src/services/geminiService.ts.*)
(*                                                                         *)
(* Numbers.  The program computes in IEEE doubles.  Here every real is a   *)
(* fixed-point integer counting millionths (Scale), and a product is       *)
(* rounded down to a millionth (Mul).  Time comes in ticks of 1/120 s.     *)
(* Math.sin, Math.cos, Math.acos and Math.cbrt are computed (polynomial,   *)
(* bisection) to a few millionths.  Math.random is a linear congruential   *)
(* generator whose seed is chosen in Init.                                 *)
(***************************************************************************)
EXTENDS Integers, Sequences, FiniteSets, TLC

VARIABLES
    pc,             \* position of MorphingTree: inside the useMemo callback, or mounted
    rng,            \* state of Math.random
    geometry,       \* pointsGeometry: the attributes of the foliage points
    ringI, ringJ,   \* i and j of the ornament ring loops
    oIdx,           \* write index of the ornament loops
    oScatter, oTree,              \* Float32Array(sphereCount * 3), as vectors
    giftI,                        \* i of the gift loop
    gScatter, gTree, gRotation,   \* Float32Array(giftCount * 3), as vectors
    ornamentData, giftData,       \* what useMemo returned
    config,         \* App's TreeConfig state
    progress,       \* progress.current
    clock,          \* state.clock.elapsedTime
    groupRotY,      \* groupRef.current.rotation.y
    foliageMat,     \* uniforms of foliageMatRef.current
    dummy,          \* the one THREE.Object3D all instance matrices are composed in
    ornamentMatrix, \* ornamentRef.current.instanceMatrix, per instance
    giftMatrix,     \* giftsRef.current.instanceMatrix, per instance
    frame,          \* number of useFrame callbacks run so far
    wish,           \* App's WishState
    userName,       \* Overlay's userName state
    request         \* the handleGenerate call in flight, if any

genVars == <<pc, rng, geometry, ringI, ringJ, oIdx, oScatter, oTree,
             giftI, gScatter, gTree, gRotation, ornamentData, giftData>>
frameVars == <<progress, clock, groupRotY, foliageMat, dummy,
               ornamentMatrix, giftMatrix, frame>>
wishVars == <<wish, userName, request>>
vars == <<genVars, config, frameVars, wishVars>>

---------------------------------------------------------------------------
(* Bounds of the model *)

MaxFrames == 2          \* frames of a run of Spec
FoliageModelled == 2    \* foliage points whose attributes are kept in the state
SettleFrames == 3       \* frames of a run of SpecSettle

Seeds == {17, 4242}                 \* seeds of Math.random
DeltaTicks == {0, 2, 60, 90}        \* frame deltas: 0, 1/60 s, 0.5 s, 0.75 s
RotationSpeeds == {3, 10}           \* positions of the Rotation slider, in tenths
BloomIntensities == {15, 20}        \* positions of the Glow slider, in tenths
UserNames == {"", "Ada"}            \* contents of the Recipient Name input
ServiceOutcomes == {"text", "empty", "throws"}  \* what generateContent does

---------------------------------------------------------------------------
(* Fixed-point arithmetic *)

K == 10 * 10 * 10
Scale == K * K
TicksPerSecond == 2 * 60

\* n/d as a fixed-point number
Dec(n, d) == (n * Scale) \div d

\* a * b, rounded down; split so that no intermediate product leaves 32 bits
Mul(a, b) ==
    LET ah == a \div K
        al == a % K
        bh == b \div K
        bl == b % K
    IN  ah * bh + ((ah * bl + al * bh) + ((al * bl) \div K)) \div K

Abs(x) == IF x < 0 THEN -x ELSE x
Min(a, b) == IF a < b THEN a ELSE b
Max(a, b) == IF a > b THEN a ELSE b

Pi == 3141593
TwoPi == 2 * Pi
HalfPi == Pi \div 2

\* Math.sin: reduce to [-pi/2, pi/2], then the Taylor polynomial of degree 11
Sin(x) ==
    LET r  == x % TwoPi
        y  == IF r <= HalfPi THEN r
              ELSE IF r <= Pi + HalfPi THEN Pi - r
              ELSE r - TwoPi
        y2 == Mul(y, y)
        t3 == Mul(y, y2) \div 6
        t5 == Mul(t3, y2) \div 20
        t7 == Mul(t5, y2) \div 42
        t9 == Mul(t7, y2) \div 72
        t11 == Mul(t9, y2) \div 110
    IN  y - t3 + t5 - t7 + t9 - t11

\* Math.cos
Cos(x) == Sin(x + HalfPi)

Bisections == 5 * 4

\* Math.acos, by bisection of [0, pi] on the decreasing Cos
RECURSIVE AcosIn(_, _, _, _)
AcosIn(c, lo, hi, n) ==
    IF n = 0 THEN lo
    ELSE LET mid == (lo + hi) \div 2
         IN  IF Cos(mid) >= c THEN AcosIn(c, mid, hi, n - 1)
             ELSE AcosIn(c, lo, mid, n - 1)
Acos(c) == AcosIn(c, 0, Pi, Bisections)

\* Math.cbrt on [0, 1], by bisection
RECURSIVE CbrtIn(_, _, _, _)
CbrtIn(w, lo, hi, n) ==
    IF n = 0 THEN lo
    ELSE LET mid == (lo + hi) \div 2
         IN  IF Mul(Mul(mid, mid), mid) <= w THEN CbrtIn(w, mid, hi, n - 1)
             ELSE CbrtIn(w, lo, mid, n - 1)
Cbrt(w) == CbrtIn(w, 0, Scale, Bisections)

\* Math.random: the next state of the generator, which is also the number
\* drawn, in [0, 1)
MathRandom(s) == (1021 * s + 300007) % Scale

\* the state of the generator after n draws
RECURSIVE Draw(_, _)
Draw(s, n) == IF n = 0 THEN s ELSE MathRandom(Draw(s, n - 1))

\* THREE.MathUtils.lerp
Lerp(x, y, t) == Mul(Scale - t, x) + Mul(t, y)

\* THREE.MathUtils.clamp
Clamp(x, lo, hi) == Max(lo, Min(hi, x))

\* THREE.Vector3.lerpVectors
LerpVectors(v1, v2, alpha) ==
    [k \in 1..3 |-> v1[k] + Mul(v2[k] - v1[k], alpha)]

Zero3 == <<0, 0, 0>>

---------------------------------------------------------------------------
(* Helper Math *)

\* randomInSphere(radius, biasY), with u, v and the third draw given
randomInSphere(radius, biasY, u, v, w) ==
    LET theta  == Mul(TwoPi, u)
        phi    == Acos(2 * v - Scale)
        r      == Mul(Cbrt(w), radius)
        sinPhi == Sin(phi)
    IN  << Mul(Mul(r, sinPhi), Cos(theta)),
           Mul(Mul(r, sinPhi), Sin(theta)) + biasY,
           Mul(r, Cos(phi)) >>

---------------------------------------------------------------------------
(* Data Generation: the useMemo callback of MorphingTree *)

foliageCount == 8000
sphereCount == 120
giftCount == 25
ringCount == 5

\* Layers for Tree Shape
layers ==
    << [y |-> -Scale,       r |-> Dec(23, 10), h |-> Dec(15, 10)],
       [y |-> Dec(2, 10),   r |-> Dec(19, 10), h |-> Dec(15, 10)],
       [y |-> Dec(14, 10),  r |-> Dec(15, 10), h |-> Dec(15, 10)],
       [y |-> Dec(25, 10),  r |-> Dec(11, 10), h |-> Dec(12, 10)],
       [y |-> Dec(34, 10),  r |-> Dec(7, 10),  h |-> Scale] >>

\* one pass of the foliage loop, drawing from generator state s
FoliagePoint(s) ==
    LET sPos   == randomInSphere(8 * Scale, 2 * Scale, Draw(s, 1), Draw(s, 2), Draw(s, 3))
        layer  == layers[(Draw(s, 4) * Len(layers)) \div Scale + 1]
        hRatio == Draw(s, 5)
        yOffset == Mul(hRatio - Dec(5, 10), layer.h)
        rBias  == IF Draw(s, 6) > Dec(8, 10) THEN Draw(s, 7)
                  ELSE Dec(9, 10) + Mul(Draw(s, 7), Dec(1, 10))
        currentRadius == Mul(Mul(layer.r, Scale - hRatio), rBias)
        theta  == Mul(Draw(s, 8), TwoPi)
    IN  [position   |-> sPos,
         aTargetPos |-> << Mul(Cos(theta), currentRadius),
                           layer.y + yOffset,
                           Mul(Sin(theta), currentRadius) >>,
         aRandom    |-> Draw(s, 9),
         aSize      |-> Mul(Draw(s, 10), Dec(5, 10)) + Dec(5, 10)]

DrawsPerFoliagePoint == 2 * 5

\* 1. FOLIAGE (POINTS).  The loop runs foliageCount times; the attributes of
\* the first FoliageModelled points are kept.
GenFoliage ==
    /\ pc = "foliage"
    /\ geometry' =
         [count  |-> foliageCount,
          points |-> [i \in 0..(FoliageModelled - 1) |->
                        FoliagePoint(Draw(rng, i * DrawsPerFoliagePoint))]]
    /\ rng' = Draw(rng, FoliageModelled * DrawsPerFoliagePoint)
    /\ oIdx' = 0
    /\ ringI' = 0
    /\ ringJ' = 0
    /\ pc' = "ornaments"
    /\ UNCHANGED <<wishVars, oScatter, oTree, giftI, gScatter, gTree, gRotation,
                   ornamentData, giftData, config, frameVars>>

\* RingSize with rings that grow by 10: the rings then hold more than the cap
RingSizeWide(i) == 10 + i * 10

\* const count = 10 + i * 4
RingSize(i) == 10 + i * 4

\* the tree position of ornament j of ring i, with the draw for its height
OrnamentTreePos(i, j, rnd) ==
    LET yBase      == -Dec(15, 10) + i * Dec(11, 10)
        radiusBase == 2 * Scale - i * Dec(4, 10)
        angle      == Mul(Dec(j, RingSize(i)), TwoPi) + i * Dec(5, 10)
    IN  << Mul(Cos(angle), Mul(radiusBase, Dec(95, 100))),
           yBase - Dec(1, 10) + Mul(rnd, Dec(3, 10)),
           Mul(Sin(angle), Mul(radiusBase, Dec(95, 100))) >>

\* 2. ORNAMENTS: one pass of the inner loop that writes an ornament
GenOrnament ==
    /\ pc = "ornaments"
    /\ ringI < ringCount
    /\ ringJ < RingSize(ringI)
    /\ oIdx < sphereCount
    /\ oScatter' = [oScatter EXCEPT ![oIdx] =
                      randomInSphere(7 * Scale, Scale,
                                     Draw(rng, 1), Draw(rng, 2), Draw(rng, 3))]
    /\ oTree' = [oTree EXCEPT ![oIdx] = OrnamentTreePos(ringI, ringJ, Draw(rng, 4))]
    /\ rng' = Draw(rng, 4)
    /\ oIdx' = oIdx + 1
    /\ ringJ' = ringJ + 1
    /\ UNCHANGED <<wishVars, pc, geometry, ringI, giftI, gScatter, gTree, gRotation,
                   ornamentData, giftData, config, frameVars>>

\* 2. ORNAMENTS: the inner loop ends (j reached count, or the break at the
\* cap) and the outer loop goes on to the next ring, or ends
GenRingEnd ==
    /\ pc = "ornaments"
    /\ ringI < ringCount
    /\ ringJ >= RingSize(ringI) \/ oIdx >= sphereCount
    /\ ringI' = ringI + 1
    /\ ringJ' = 0
    /\ pc' = IF ringI + 1 < ringCount THEN "ornaments" ELSE "gifts"
    /\ giftI' = 0
    /\ UNCHANGED <<wishVars, rng, geometry, oIdx, oScatter, oTree, gScatter, gTree,
                   gRotation, ornamentData, giftData, config, frameVars>>

\* the tree position of gift i: a sparse spiral
GiftTreePos(i) ==
    LET theta == Mul(Mul(Dec(i, giftCount), Pi), 10 * Scale)
        y     == -Dec(15, 10) + Mul(Dec(i, giftCount), Dec(45, 10))
        r     == Mul(Dec(24, 10), Scale - Mul(Dec(i, giftCount), Dec(8, 10)))
    IN  << Mul(Cos(theta), r), y, Mul(Sin(theta), r) >>

\* 3. GIFTS: one pass of the loop
GenGift ==
    /\ pc = "gifts"
    /\ giftI < giftCount
    /\ gScatter' = [gScatter EXCEPT ![giftI] =
                      randomInSphere(5 * Scale, -Scale,
                                     Draw(rng, 1), Draw(rng, 2), Draw(rng, 3))]
    /\ gTree' = [gTree EXCEPT ![giftI] = GiftTreePos(giftI)]
    /\ gRotation' = [gRotation EXCEPT ![giftI] =
                       << Mul(Draw(rng, 4), Pi), Mul(Draw(rng, 5), Pi),
                          Mul(Draw(rng, 6), Pi) >>]
    /\ rng' = Draw(rng, 6)
    /\ giftI' = giftI + 1
    /\ UNCHANGED <<wishVars, pc, geometry, ringI, ringJ, oIdx, oScatter, oTree,
                   ornamentData, giftData, config, frameVars>>

\* the transform of a new instance of an InstancedMesh
IdentityMatrix == [position |-> Zero3, rotation |-> Zero3, scale |-> <<Scale, Scale, Scale>>]

\* the return of the callback; the first render then mounts the two
\* instanced meshes with the returned counts
GenReturn ==
    /\ pc = "gifts"
    /\ giftI >= giftCount
    /\ ornamentData' = [scatter |-> oScatter, tree |-> oTree, count |-> oIdx]
    /\ giftData' = [scatter |-> gScatter, tree |-> gTree, rot |-> gRotation,
                    count |-> giftCount]
    /\ ornamentMatrix' = [i \in 0..(oIdx - 1) |-> IdentityMatrix]
    /\ giftMatrix' = [i \in 0..(giftCount - 1) |-> IdentityMatrix]
    /\ pc' = "mounted"
    /\ UNCHANGED <<wishVars, rng, geometry, ringI, ringJ, oIdx, oScatter, oTree, giftI,
                   gScatter, gTree, gRotation, config, progress, clock,
                   groupRotY, foliageMat, dummy, frame>>

---------------------------------------------------------------------------
(* The state when MorphingTree is first rendered *)

Null == "<null>"

TREE_SHAPE == "TREE_SHAPE"
SCATTERED == "SCATTERED"

Init ==
    /\ pc = "foliage"
    /\ rng \in Seeds
    /\ geometry = [count |-> 0, points |-> <<>>]
    /\ ringI = 0
    /\ ringJ = 0
    /\ oIdx = 0
    /\ oScatter = [i \in 0..(sphereCount - 1) |-> Zero3]
    /\ oTree = [i \in 0..(sphereCount - 1) |-> Zero3]
    /\ giftI = 0
    /\ gScatter = [i \in 0..(giftCount - 1) |-> Zero3]
    /\ gTree = [i \in 0..(giftCount - 1) |-> Zero3]
    /\ gRotation = [i \in 0..(giftCount - 1) |-> Zero3]
    /\ ornamentData = [scatter |-> <<>>, tree |-> <<>>, count |-> 0]
    /\ giftData = [scatter |-> <<>>, tree |-> <<>>, rot |-> <<>>, count |-> 0]
    /\ config = [rotationSpeed |-> Dec(3, 10), bloomIntensity |-> Dec(15, 10),
                 lightsColor |-> "#FFFAEE", morphState |-> TREE_SHAPE]
    /\ progress = Scale
    /\ clock = 0
    /\ groupRotY = 0
    /\ foliageMat = [uTime |-> 0, uProgress |-> 0]
    /\ dummy = IdentityMatrix
    /\ ornamentMatrix = <<>>
    /\ giftMatrix = <<>>
    /\ frame = 0
    /\ wish = [text |-> "", loading |-> FALSE, error |-> Null]
    /\ userName = ""
    /\ request = [state |-> "idle"]

Generate == GenFoliage \/ GenOrnament \/ GenRingEnd \/ GenGift \/ GenReturn

---------------------------------------------------------------------------
(* Overlay: the controls *)

\* ToggleMorph with the useMemo of the data keyed on config.morphState: the
\* render that follows the toggle runs the callback again
ToggleMorphRegenerates ==
    /\ pc = "mounted"
    /\ config' = [config EXCEPT !.morphState =
                    IF config.morphState = TREE_SHAPE THEN SCATTERED ELSE TREE_SHAPE]
    /\ pc' = "foliage"
    /\ UNCHANGED <<wishVars, rng, geometry, ringI, ringJ, oIdx, oScatter, oTree, giftI,
                   gScatter, gTree, gRotation, ornamentData, giftData, frameVars>>

\* toggleMorph
ToggleMorph ==
    /\ pc = "mounted"
    /\ config' = [config EXCEPT !.morphState =
                    IF config.morphState = TREE_SHAPE THEN SCATTERED ELSE TREE_SHAPE]
    /\ UNCHANGED <<wishVars, genVars, frameVars>>

\* onChange of the Rotation slider
SetRotationSpeed ==
    /\ pc = "mounted"
    /\ \E v \in RotationSpeeds :
         config' = [config EXCEPT !.rotationSpeed = Dec(v, 10)]
    /\ UNCHANGED <<wishVars, genVars, frameVars>>

\* onChange of the Glow slider
SetBloomIntensity ==
    /\ pc = "mounted"
    /\ \E v \in BloomIntensities :
         config' = [config EXCEPT !.bloomIntensity = Dec(v, 10)]
    /\ UNCHANGED <<wishVars, genVars, frameVars>>

---------------------------------------------------------------------------
(* Overlay: the wish card, and generateLuxuryWish *)

\* response.text when the service answers with a text
ServiceText(recipient) ==
    IF recipient = "Valued Guest" THEN "A golden, timeless season to you."
    ELSE "A golden, timeless season to you, Ada."

\* generateLuxuryWish without its try/catch: a failure of the service
\* rejects the promise
generateLuxuryWishNoCatch(recipient, outcome) ==
    IF outcome = "throws" THEN [kind |-> "rejected"]
    ELSE [kind |-> "resolved",
          text |-> IF outcome = "empty" THEN "Season's Greetings from Arix."
                   ELSE ServiceText(recipient)]

\* generateLuxuryWish: how its promise settles, given what generateContent did
generateLuxuryWish(recipient, outcome) ==
    IF outcome = "throws"
    THEN [kind |-> "resolved",
          text |-> "Wishing you a season of timeless elegance and golden moments."]
    ELSE [kind |-> "resolved",
          text |-> IF outcome = "empty" THEN "Season's Greetings from Arix."
                   ELSE ServiceText(recipient)]

\* the form (name input and Generate Wish button) is what the card shows
FormShown == ~wish.loading /\ wish.text = ""

\* onChange of the Recipient Name input
SetUserName ==
    /\ pc = "mounted"
    /\ FormShown
    /\ \E n \in UserNames : userName' = n
    /\ UNCHANGED <<genVars, config, frameVars, wish, request>>

\* handleGenerate, up to its await
HandleGenerate ==
    /\ pc = "mounted"
    /\ FormShown
    /\ request.state = "idle"
    /\ wish' = [wish EXCEPT !.loading = TRUE, !.error = Null]
    /\ request' = [state |-> "pending",
                   recipient |-> IF userName = "" THEN "Valued Guest" ELSE userName]
    /\ UNCHANGED <<genVars, config, frameVars, userName>>

\* generateContent answers or fails, and the promise of generateLuxuryWish
\* settles
ServiceSettles ==
    /\ request.state = "pending"
    /\ \E outcome \in ServiceOutcomes :
         request' = [state |-> "settled",
                     result |-> generateLuxuryWish(request.recipient, outcome)]
    /\ UNCHANGED <<genVars, config, frameVars, wish, userName>>

\* handleGenerate, from its await on: the try continues, or the catch runs
HandleGenerateResume ==
    /\ request.state = "settled"
    /\ wish' = IF request.result.kind = "resolved"
               THEN [text |-> request.result.text, loading |-> FALSE, error |-> Null]
               ELSE [text |-> "", loading |-> FALSE,
                     error |-> "The spirits are quiet..."]
    /\ request' = [state |-> "idle"]
    /\ UNCHANGED <<genVars, config, frameVars, userName>>

\* onClick of Close
CloseWish ==
    /\ pc = "mounted"
    /\ ~wish.loading
    /\ wish.text # ""
    /\ wish' = [wish EXCEPT !.text = ""]
    /\ UNCHANGED <<genVars, config, frameVars, userName, request>>

WishNext ==
    Generate \/ SetUserName \/ HandleGenerate \/ ServiceSettles
      \/ HandleGenerateResume \/ CloseWish

\* a settled promise always runs its continuation; the service itself may
\* never answer
SpecWish == Init /\ [][WishNext]_vars /\ WF_vars(HandleGenerateResume)

---------------------------------------------------------------------------
(* useFrame of MorphingTree *)

\* the frame delta of d ticks, in seconds
Delta(d) == Dec(d, TicksPerSecond)

\* SpeedMult following the transition instead of the flag
SpeedMultFromProgress(morphState) == IF progress < Dec(5, 10) THEN Dec(2, 10) ELSE Scale

\* const speedMult = ... ? 0.2 : 1.0
SpeedMult(morphState) == IF morphState = SCATTERED THEN Dec(2, 10) ELSE Scale

\* const targetProgress = ... ? 1 : 0
TargetProgress(morphState) == IF morphState = TREE_SHAPE THEN Scale ELSE 0

\* NextProgress without the factor 2.0 on the delta
NextProgressRateOne(p, morphState, delta) ==
    Lerp(p, TargetProgress(morphState), delta)

\* Progress Logic: progress.current after a frame of the given delta
NextProgress(p, morphState, delta) ==
    Lerp(p, TargetProgress(morphState), Mul(delta, 2 * Scale))

\* Math.pow(x, 3)
Cube(x) == Mul(Mul(x, x), x)

\* Easing for CPU animations
SmoothT(t) ==
    IF t < Dec(5, 10) THEN 4 * Cube(t)
    ELSE Scale - Cube(-2 * t + 2 * Scale) \div 2

\* Heavy objects lag behind slightly in transition
HeavyT(smoothT) == Max(0, smoothT - Dec(1, 10))

\* EffectiveT rescaling the eased factor itself instead of heavyT
EffectiveTNoLag(smoothT) == Clamp(Mul(smoothT, Dec(11, 10)), 0, Scale)

\* Renormalize to 0-1 range roughly
EffectiveT(smoothT) == Clamp(Mul(HeavyT(smoothT), Dec(11, 10)), 0, Scale)

\* the position of ornament i in a frame with progress t at elapsed time now
OrnamentPosition(i, t, now) ==
    LET smoothT == SmoothT(t)
        v == LerpVectors(ornamentData.scatter[i], ornamentData.tree[i], smoothT)
    IN  IF t < Dec(99, 100)
        THEN [v EXCEPT ![2] = @ + Mul(Mul(Sin(Mul(now, 2 * Scale) + i * Scale),
                                          Dec(1, 10)),
                                      Scale - smoothT)]
        ELSE v

\* the position of gift i in a frame with progress t at elapsed time now
GiftPosition(i, t, now) ==
    LET effectiveT == EffectiveT(SmoothT(t))
        v == LerpVectors(giftData.scatter[i], giftData.tree[i], effectiveT)
    IN  IF t < Dec(99, 100)
        THEN [v EXCEPT ![2] = @ + Mul(Mul(Sin(Mul(now, Dec(5, 10)) + i * Scale),
                                          Dec(5, 100)),
                                      Scale - effectiveT)]
        ELSE v

\* GiftRotation without the else branch: the gifts go on turning
GiftRotationNeverSettles(i, t, now) ==
    << giftData.rot[i][1] + Mul(now, Dec(1, 10)),
       giftData.rot[i][2] + Mul(now, Dec(1, 10)),
       giftData.rot[i][3] >>

\* dummy.rotation as the gift loop sets it for gift i
GiftRotation(i, t, now) ==
    IF t < Dec(99, 100)
    THEN << giftData.rot[i][1] + Mul(now, Dec(1, 10)),
            giftData.rot[i][2] + Mul(now, Dec(1, 10)),
            giftData.rot[i][3] >>
    ELSE Zero3

\* ReadT reading progress.current before the Progress Logic has stored the
\* frame's value: the interpolators then work from the previous frame's
ReadTBeforeUpdate(p, morphState, delta) == p

\* const t = progress.current, read after the Progress Logic of the frame
ReadT(p, morphState, delta) == NextProgress(p, morphState, delta)

\* The callback, for a frame of d ticks.  The render loop has advanced
\* state.clock by the delta before it calls back.
FrameStep(d) ==
    LET delta == Delta(d)
        now   == clock + delta
        t     == ReadT(progress, config.morphState, delta)
        last  == giftData.count - 1
    IN  /\ pc = "mounted"
        /\ clock' = now
        /\ groupRotY' = groupRotY
                        + Mul(Mul(delta, config.rotationSpeed), SpeedMult(config.morphState))
        /\ progress' = NextProgress(progress, config.morphState, delta)
        /\ foliageMat' = [uTime |-> now, uProgress |-> t]
        \* the sphere loop sets dummy.position and dummy.scale only: the
        \* rotation in these matrices is the one dummy had when the frame began
        /\ ornamentMatrix' =
             [i \in 0..(ornamentData.count - 1) |->
                [position |-> OrnamentPosition(i, t, now),
                 rotation |-> dummy.rotation,
                 scale    |-> <<Scale, Scale, Scale>>]]
        /\ giftMatrix' =
             [i \in 0..(giftData.count - 1) |->
                [position |-> GiftPosition(i, t, now),
                 rotation |-> GiftRotation(i, t, now),
                 scale    |-> <<Dec(25, 100), Dec(25, 100), Dec(25, 100)>>]]
        /\ dummy' = [position |-> GiftPosition(last, t, now),
                     rotation |-> GiftRotation(last, t, now),
                     scale    |-> <<Dec(25, 100), Dec(25, 100), Dec(25, 100)>>]
        /\ frame' = frame + 1
        /\ UNCHANGED <<wishVars, genVars, config>>

\* a frame, with any of the deltas
Frame ==
    /\ frame < MaxFrames
    /\ \E d \in DeltaTicks : FrameStep(d)

Next == Generate \/ ToggleMorph \/ SetRotationSpeed \/ SetBloomIntensity \/ Frame

Spec == Init /\ [][Next]_vars

---------------------------------------------------------------------------
(* The scenario of 5 seconds at 60 fps: one toggle to SCATTERED, then      *)
(* frames of 1/60 s and no other input                                     *)

ScenarioFrames == 5 * 60
SixtiethTicks == TicksPerSecond \div 60

ScenarioToggle ==
    /\ frame = 0
    /\ config.morphState = TREE_SHAPE
    /\ ToggleMorph

ScenarioFrame ==
    /\ config.morphState = SCATTERED
    /\ frame < ScenarioFrames
    /\ FrameStep(SixtiethTicks)

ScenarioNext == Generate \/ ScenarioToggle \/ ScenarioFrame

SpecScenario == Init /\ [][ScenarioNext]_vars

---------------------------------------------------------------------------
(* Settling: toggles, and frames that keep arriving with a positive delta  *)

PositiveDeltaTicks == DeltaTicks \ {0}

SettleFrame ==
    /\ frame < SettleFrames
    /\ \E d \in PositiveDeltaTicks : FrameStep(d)

SettleNext == Generate \/ ToggleMorph \/ SettleFrame

\* the render loop calls back on every animation frame
SpecSettle == Init /\ [][SettleNext]_vars /\ WF_vars(SettleFrame)

---------------------------------------------------------------------------
(* Properties *)

Target == TargetProgress(config.morphState)
IsFrame == frame' = frame + 1
Gifts == 0..(giftData.count - 1)

\* C1: progress stays within [0, 1] whatever the frame deltas and toggles.
C1_ProgressInRange == 0 <= progress /\ progress <= Scale

\* C2: with MorphState held, a frame never increases the distance to the
\* target, never takes progress to the far side of the target, and never
\* completes a transition in one frame.
C2_MonotoneNoOvershoot ==
    [][IsFrame =>
         /\ Abs(Target - progress') <= Abs(Target - progress)
         /\ progress <= Target => progress' <= Target
         /\ progress >= Target => progress' >= Target
         /\ progress # Target => progress' # Target]_vars

\* C3: a toggle leaves progress as it is, and a frame of a transition under
\* way moves progress by strictly less than the distance that remains.
C3_SmoothReversal ==
    [][/\ config'.morphState # config.morphState => progress' = progress
       /\ IsFrame /\ progress # Target =>
            Abs(progress' - progress) < Abs(Target - progress)]_vars

\* C4: once the scene is constructed, no frame, toggle or slider change
\* writes an endpoint buffer, a rotation seed or a population count, and
\* none runs the generation again (no further draw, no return to the
\* callback).
C4_EndpointsImmutable ==
    [][pc = "mounted" =>
         /\ UNCHANGED <<geometry, oScatter, oTree, gScatter, gTree, gRotation,
                        ornamentData, giftData>>
         /\ UNCHANGED <<pc, rng, oIdx, giftI>>
         /\ DOMAIN ornamentMatrix' = DOMAIN ornamentMatrix
         /\ DOMAIN giftMatrix' = DOMAIN giftMatrix]_vars

C4_Witness ==
    /\ pc = "mounted"
    /\ frame >= 1
    /\ config.morphState = SCATTERED
    /\ config.rotationSpeed = Dec(10, 10)
    /\ config.bloomIntensity = Dec(20, 10)
    /\ ornamentData.scatter = oScatter
    /\ giftData.tree = gTree

RECURSIVE SumRingSizes(_)
SumRingSizes(n) == IF n = 0 THEN 0 ELSE RingSize(n - 1) + SumRingSizes(n - 1)

\* C5: the ring loops write min(120, 10+14+18+22+26) = 90 ornaments, the
\* write index stays below 120 at every step, and a frame writes the
\* transforms of exactly the instances 0..89.
C5_OrnamentCount ==
    /\ oIdx < sphereCount
    /\ pc \in {"gifts", "mounted"} =>
         /\ oIdx = Min(sphereCount, SumRingSizes(ringCount))
         /\ oIdx = 90
    /\ pc = "mounted" =>
         /\ ornamentData.count = 90
         /\ DOMAIN ornamentMatrix = 0..89
    /\ frame >= 1 => \A i \in 0..89 : ornamentMatrix[i].position # Zero3

C5_Witness ==
    /\ pc = "mounted"
    /\ frame >= 1
    /\ ornamentData.count = 90
    /\ ornamentMatrix[89].position # Zero3

\* C6: after a frame that left progress at 0.99 or more, the rotation in
\* every gift's transform is zero on the three axes; after a frame that left
\* it below, it is the gift's random orientation plus 0.1 * elapsed time on
\* the first two axes.
C6_GiftRotation ==
    frame >= 1 =>
      \A i \in Gifts :
        giftMatrix[i].rotation =
          IF progress >= Dec(99, 100) THEN <<0, 0, 0>>
          ELSE << gRotation[i][1] + clock \div 10,
                  gRotation[i][2] + clock \div 10,
                  gRotation[i][3] >>

C6_Witness ==
    /\ frame >= 1
    /\ progress = Scale
    /\ clock > 0
    /\ \E i \in Gifts : gRotation[i] # Zero3
    /\ \A i \in Gifts : giftMatrix[i].rotation = Zero3

\* C7: for progress in [0, 1] the blend factor of the gifts is at most the
\* eased blend factor of the ornaments, and is 0 while the eased factor is
\* at most 0.1.
C7_HeavyLagsLight ==
    (0 <= progress /\ progress <= Scale) =>
      /\ EffectiveT(SmoothT(progress)) <= SmoothT(progress)
      /\ SmoothT(progress) <= Dec(1, 10) => EffectiveT(SmoothT(progress)) = 0

C7_Witness ==
    /\ frame >= 1
    /\ 0 < SmoothT(progress)
    /\ SmoothT(progress) <= Dec(1, 10)
    /\ EffectiveT(SmoothT(progress)) = 0
    /\ \A i \in Gifts : giftMatrix[i].position[1] = gScatter[i][1]

C9_FiveSeconds ==
    (frame = ScenarioFrames /\ config.morphState = SCATTERED) =>
      Abs(progress - 0) <= Dec(1, 1000)

C9_Witness ==
    /\ frame = ScenarioFrames
    /\ config.morphState = SCATTERED
    /\ clock >= 5 * Scale - Dec(1, 100)
    /\ Abs(progress) <= Dec(1, 1000)

\* C10: one frame of dt leaves progress where two frames of dt/2 leave it
\* (to within the rounding of the arithmetic: 4 millionths).
C10_FrameRateIndependent ==
    pc = "mounted" =>
      \A d \in {e \in DeltaTicks : e % 2 = 0} :
        Abs(NextProgress(progress, config.morphState, Delta(d))
            - NextProgress(NextProgress(progress, config.morphState, Delta(d \div 2)),
                           config.morphState, Delta(d \div 2))) <= 4

Ornaments == 0..(ornamentData.count - 1)

\* C11: each interpolator writes only its own population's transforms, from
\* that population's own state: after a frame, the transform of an ornament
\* is its own eased position at the current progress and time with no
\* rotation (the sphere loop sets none), whatever rotation the gift loop has
\* set in this frame or an earlier one; a gift's transform is its own
\* position and the rotation of its own seed.
C11_OwnPopulationOnly ==
    frame >= 1 =>
      /\ \A i \in Ornaments :
           /\ ornamentMatrix[i].position = OrnamentPosition(i, progress, clock)
           /\ ornamentMatrix[i].rotation = <<0, 0, 0>>
      /\ \A i \in Gifts :
           /\ giftMatrix[i].position = GiftPosition(i, progress, clock)
           /\ giftMatrix[i].rotation \in {<<0, 0, 0>>,
                                          << gRotation[i][1] + clock \div 10,
                                             gRotation[i][2] + clock \div 10,
                                             gRotation[i][3] >>}

\* C12: what a frame writes comes from the progress that frame's update
\* produced: the uProgress uniform is that progress, every ornament is blended
\* by its eased value and every gift by its lagged and rescaled eased value.
\* (The x coordinate carries the blend alone: the float is added to y.)
C12_ReadsThisFramesProgress ==
    frame >= 1 =>
      /\ foliageMat.uProgress = progress
      /\ \A i \in Ornaments :
           ornamentMatrix[i].position[1] =
             oScatter[i][1] + Mul(oTree[i][1] - oScatter[i][1], SmoothT(progress))
      /\ \A i \in Gifts :
           giftMatrix[i].position[1] =
             gScatter[i][1] + Mul(gTree[i][1] - gScatter[i][1],
                                  EffectiveT(SmoothT(progress)))

\* a frame has moved progress off its previous value 1, and its outputs
\* show the new value
C12_Witness ==
    /\ frame >= 1
    /\ 0 < progress
    /\ progress < Scale
    /\ foliageMat.uProgress = progress
    /\ ornamentMatrix[0].position[1] # oTree[0][1]

\* C13: a frame adds delta * rotationSpeed * m to the yaw, with m = 0.2 when
\* the flag read in that frame is SCATTERED and m = 1 otherwise, whatever the
\* progress.
C13_YawFollowsFlag ==
    [][IsFrame =>
         groupRotY' - groupRotY =
           Mul(Mul(clock' - clock, config.rotationSpeed),
               IF config.morphState = SCATTERED THEN Dec(2, 10) ELSE Scale)]_vars

\* the first frame after a toggle to SCATTERED: progress is still above 0.9,
\* and the yaw has advanced at a fifth of the speed
C13_Witness ==
    /\ frame = 1
    /\ config.morphState = SCATTERED
    /\ progress > Dec(9, 10)
    /\ clock > 0
    /\ groupRotY > 0
    /\ groupRotY = Mul(Mul(clock, config.rotationSpeed), Dec(2, 10))

\* C14: while MorphState stays TREE and frames arrive with a positive delta,
\* the scene settles: once progress is at or above 0.99 every further frame
\* leaves it there, applies no vertical float to ornaments or gifts and
\* writes a zero rotation for every gift.
C14_SettledStaysSettled ==
    [][(/\ IsFrame
        /\ clock' > clock
        /\ config.morphState = TREE_SHAPE
        /\ progress >= Dec(99, 100)) =>
         /\ progress' >= Dec(99, 100)
         /\ \A i \in Ornaments :
              ornamentMatrix'[i].position =
                LerpVectors(oScatter[i], oTree[i], SmoothT(progress'))
         /\ \A i \in Gifts :
              /\ giftMatrix'[i].position =
                   LerpVectors(gScatter[i], gTree[i], EffectiveT(SmoothT(progress')))
              /\ giftMatrix'[i].rotation = <<0, 0, 0>>]_vars

\* C15: a Generate Wish request never ends in the error state, whatever the
\* service does: error stays null, loading is true exactly while a request
\* is in flight, the step that completes a request leaves loading = false,
\* error = null and a non-empty text, and a settled request leads to
\* loading = false.
C15_WishNeverFails ==
    /\ [](wish.error = Null)
    /\ [](wish.loading <=> request.state # "idle")
    /\ [][(request.state = "settled" /\ request'.state = "idle") =>
            (~wish'.loading /\ wish'.error = Null /\ wish'.text # "")]_vars
    /\ (request.state = "settled") ~> (~wish.loading)

\* a request whose service call threw has completed with the fallback text
C15_Witness ==
    /\ request.state = "idle"
    /\ ~wish.loading
    /\ wish.error = Null
    /\ wish.text = "Wishing you a season of timeless elegance and golden moments."

====
